---- MODULE Spec2Model ----
(***************************************************************************)
(* Dead letter queue of jbi (src/jbi/queue.py): QueueItem, MemoryBackend,  *)
(* FileBackend and the DeadLetterQueue facade.                             *)
(***************************************************************************)
EXTENDS Integers, Sequences, FiniteSets, Bags, TLC

\* ------------------------------------------------------------------ bounds
MaxKey == 2
MaxTime == 1
MaxNow == 1
MaxPuts == 3
NumHandlers == 2

\* ------------------------------------------------------- values and inputs
\* Optional[X]: the empty tuple is None, a one-element tuple a value.
None == <<>>
Some(x) == <<x>>

\* datetime has microsecond resolution; the model's clock is read at
\* multiples of one and a half seconds.
MicrosPerSec == 1000000
ClockStep == 1500000

Keys == 1..MaxKey
Actions == {"create"}
EventTimes == {None} \cup {Some(t) : t \in 1..MaxTime}

\* bugzilla.WebhookRequest, of which the queue reads bug.id, event.action
\* and event.time.
Payloads == [bug : [id : Keys], event : [action : Actions, time : EventTimes]]

Exceptions == {[cls |-> "ValueError", msg |-> "boom"]}

\* PythonException.from_exc
from_exc(exc) ==
    [type |-> exc.cls,
     description |-> exc.msg,
     details |-> <<"Traceback (most recent call last):", exc.cls, exc.msg>>]

\* an item built without its failure record
QueueItem_mut(tick, payload, error) ==
    [timestamp |-> tick * ClockStep, payload |-> payload, error |-> None]

\* QueueItem(payload=..., error=...) with the default timestamp factory
\* evaluated when the clock shows tick `tick`.
QueueItem(tick, payload, error) ==
    [timestamp |-> tick * ClockStep, payload |-> payload, error |-> error]

\* f"{x:.0f}" of timestamp.timestamp(): nearest integer, a tie to the even one.
Format0f(micros) ==
    LET q == micros \div MicrosPerSec
        r == micros % MicrosPerSec
    IN  IF 2 * r < MicrosPerSec THEN q
        ELSE IF 2 * r > MicrosPerSec THEN q + 1
        ELSE IF q % 2 = 0 THEN q ELSE q + 1

\* QueueItem.identifier: "<seconds>-<action>-<error|postponed>"
identifier(item) ==
    <<Format0f(item.timestamp),
      item.payload.event.action,
      IF item.error # None THEN "error" ELSE "postponed">>

\* payload.event.time or 0
EventTimeOrZero(item) ==
    IF item.payload.event.time = None THEN 0 ELSE item.payload.event.time[1]

\* ------------------------------------------------------- generic helpers
Range(s) == {s[i] : i \in DOMAIN s}

Perms(S) ==
    {p \in [1..Cardinality(S) -> S] : \A x \in S : \E i \in DOMAIN p : p[i] = x}

RECURSIVE Concat(_)
Concat(ss) == IF ss = <<>> THEN <<>> ELSE Head(ss) \o Concat(Tail(ss))

RECURSIVE SumLen(_)
SumLen(ss) == IF ss = <<>> THEN 0 ELSE Len(Head(ss)) + SumLen(Tail(ss))

\* how often x occurs in the sequence s
Count(s, x) == Cardinality({i \in DOMAIN s : s[i] = x})

\* sorted(s, key=...), keys[i] being the key of s[i]: Python's sort is
\* stable, so the result is the one arrangement ordered by (key, original
\* position).
sorted(s, keys) ==
    LET n == Len(s)
        rank(i) == 1 + Cardinality({j \in 1..n :
                        \/ keys[j] < keys[i]
                        \/ keys[j] = keys[i] /\ j < i})
    IN  [p \in 1..n |-> s[CHOOSE i \in 1..n : rank(i) = p]]

\* key=lambda i: i.payload.event.time or 0
ByEventTime(items) == [i \in DOMAIN items |-> EventTimeOrZero(items[i])]

\* key=lambda items: items[0].payload.event.time or 0
ByFirstEventTime(groups) == [i \in DOMAIN groups |-> EventTimeOrZero(groups[i][1])]

\* A dict[int, list[QueueItem]] is a sequence of entries [k, v] in insertion
\* order without repeated keys.
DictIndex(d, k) ==
    IF \E i \in DOMAIN d : d[i].k = k THEN CHOOSE i \in DOMAIN d : d[i].k = k ELSE 0

DictValues(d) == [i \in DOMAIN d |-> d[i].v]

\* d[k] = v
DictSet(d, k, v) ==
    IF DictIndex(d, k) = 0 THEN Append(d, [k |-> k, v |-> v])
    ELSE [d EXCEPT ![DictIndex(d, k)].v = v]

\* ----------------------------------------------------------- MemoryBackend
\* self.existing[bug_id] of a defaultdict(list): a missing key is inserted
\* with an empty list.
DefaultGet(existing_, k) ==
    IF DictIndex(existing_, k) = 0
    THEN [existing |-> Append(existing_, [k |-> k, v |-> <<>>]), value |-> <<>>]
    ELSE [existing |-> existing_, value |-> existing_[DictIndex(existing_, k)].v]

\* clear forgetting the first key only
MemoryBackend_clear_mut(existing_) == SubSeq(existing_, 2, Len(existing_))

MemoryBackend_clear(existing_) == <<>>

\* put replacing the key's list
MemoryBackend_put_mut(existing_, item) ==
    DictSet(DefaultGet(existing_, item.payload.bug.id).existing, item.payload.bug.id, <<item>>)

MemoryBackend_put(existing_, item) ==
    LET g == DefaultGet(existing_, item.payload.bug.id)
    IN  DictSet(g.existing, item.payload.bug.id, Append(g.value, item))

\* get taking the first item off the list it returns
MemoryBackend_get_mut(existing_, bug_id) ==
    LET g == DefaultGet(existing_, bug_id)
    IN  [existing |-> DictSet(g.existing, bug_id, SubSeq(g.value, 2, Len(g.value))),
         value |-> g.value]

MemoryBackend_get(existing_, bug_id) == DefaultGet(existing_, bug_id)

MemoryBackend_get_all(existing_) == existing_

\* remove emptying the key's list
MemoryBackend_remove_mut(existing_, bug_id, ident) ==
    DictSet(DefaultGet(existing_, bug_id).existing, bug_id, <<>>)

\* remove filtering the lists of all keys
MemoryBackend_remove_all(existing_, bug_id, ident) ==
    LET g == DefaultGet(existing_, bug_id)
    IN  [i \in DOMAIN g.existing |->
            [k |-> g.existing[i].k,
             v |-> SelectSeq(g.existing[i].v, LAMBDA x : identifier(x) # ident)]]

MemoryBackend_remove(existing_, bug_id, ident) ==
    LET g == DefaultGet(existing_, bug_id)
    IN  DictSet(g.existing, bug_id, SelectSeq(g.value, LAMBDA i : identifier(i) # ident))

\* size counting the keys
MemoryBackend_size_mut(existing_) == Len(existing_)

MemoryBackend_size(existing_) == SumLen(DictValues(existing_))

\* ------------------------------------------------------------- FileBackend
\* item.model_dump_json(): the JSON text as a tagged tree.  A datetime is
\* written in ISO 8601, the microseconds only when they are not zero.
JNull == [t |-> "null"]
JNum(n) == [t |-> "num", v |-> n]
JStr(s) == [t |-> "str", v |-> s]
JObj(o) == [t |-> "obj", v |-> o]

\* a timestamp written in whole seconds
IsoFormat_mut(micros) == <<micros \div MicrosPerSec>>

IsoFormat(micros) ==
    IF micros % MicrosPerSec = 0
    THEN <<micros \div MicrosPerSec>>
    ELSE <<micros \div MicrosPerSec, micros % MicrosPerSec>>

FromIso(iso) ==
    IF Len(iso) = 1 THEN iso[1] * MicrosPerSec ELSE iso[1] * MicrosPerSec + iso[2]

model_dump_json(item) ==
    JObj([timestamp |-> JStr(IsoFormat(item.timestamp)),
          payload |-> JObj([
              bug |-> JObj([id |-> JNum(item.payload.bug.id)]),
              event |-> JObj([
                  action |-> JStr(item.payload.event.action),
                  time |-> IF item.payload.event.time = None THEN JNull
                           ELSE JNum(item.payload.event.time[1])])]),
          error |-> IF item.error = None THEN JNull
                    ELSE JObj([type |-> JStr(item.error[1].type),
                               description |-> JStr(item.error[1].description),
                               details |-> JStr(item.error[1].details)])])

\* QueueItem(**json.load(f))
QueueItem_load(json) ==
    LET o == json.v
        ev == o.payload.v.event.v
    IN  [timestamp |-> FromIso(o.timestamp.v),
         payload |-> [bug |-> [id |-> o.payload.v.bug.v.id.v],
                      event |-> [action |-> ev.action.v,
                                 time |-> IF ev.time.t = "null" THEN None
                                          ELSE Some(ev.time.v)]],
         error |-> IF o.error.t = "null" THEN None
                   ELSE Some([type |-> o.error.v.type.v,
                              description |-> o.error.v.description.v,
                              details |-> o.error.v.details.v])]

\* The directory tree under self.location: whether the path exists and is a
\* directory, the per-bug folders, and the files, a function from
\* <<folder, name>> to text.
EmptyTree == [exists |-> TRUE, isdir |-> TRUE, folders |-> {}, files |-> <<>>]

\* nothing at the path
NoPath == [exists |-> FALSE, isdir |-> FALSE, folders |-> {}, files |-> <<>>]

\* a regular file at the path
RegularFile == [exists |-> TRUE, isdir |-> FALSE, folders |-> {}, files |-> <<>>]

FilesIn(loc, bug_id) == {p \in DOMAIN loc.files : p[1] = bug_id}

\* shutil.rmtree(self.location)
FileBackend_clear(loc) == NoPath

\* put naming the file after the identifier and the event time
FileBackend_put_mut(loc, item) ==
    LET path == <<item.payload.bug.id, <<identifier(item), item.payload.event.time>>>>
        rest == [p \in DOMAIN loc.files \ {path} |-> loc.files[p]]
    IN  [exists |-> TRUE,
         isdir |-> TRUE,
         folders |-> loc.folders \cup {item.payload.bug.id},
         files |-> (path :> model_dump_json(item)) @@ rest]

FileBackend_put(loc, item) ==
    LET path == <<item.payload.bug.id, identifier(item)>>
        rest == [p \in DOMAIN loc.files \ {path} |-> loc.files[p]]
    IN  [exists |-> TRUE,
         isdir |-> TRUE,
         folders |-> loc.folders \cup {item.payload.bug.id},
         files |-> (path :> model_dump_json(item)) @@ rest]

\* os.remove(path) raises FileNotFoundError when the file is not there
FileBackend_remove_raises(loc, bug_id, ident) == <<bug_id, ident>> \notin DOMAIN loc.files

\* remove deleting every file of the folder
FileBackend_remove_mut(loc, bug_id, ident) ==
    [loc EXCEPT !.files = [p \in DOMAIN loc.files \ FilesIn(loc, bug_id) |-> loc.files[p]]]

FileBackend_remove(loc, bug_id, ident) ==
    [loc EXCEPT !.files = [p \in DOMAIN loc.files \ {<<bug_id, ident>>} |-> loc.files[p]]]

\* folder.glob("*.json"): the directory is listed in an order the file
\* system chooses.
GlobOrders(loc, bug_id) == Perms(FilesIn(loc, bug_id))

FileBackend_get(loc, order) == [i \in DOMAIN order |-> QueueItem_load(loc.files[order[i]])]

\* a listing that mixes the files of different folders
RglobOrders_mut(loc) == Perms(DOMAIN loc.files)

\* self.location.rglob("*.json"): the tree is walked one directory at a
\* time, so the files of one folder come out next to each other; the order
\* of the folders and of the files in a folder is the file system's.
RglobOrders(loc) ==
    {o \in Perms(DOMAIN loc.files) :
        \A i, j \in DOMAIN o :
            (i < j /\ o[i][1] = o[j][1]) => \A m \in i..j : o[m][1] = o[i][1]}

\* itertools.groupby(all_items, key=bug id): runs of neighbours with equal key
RECURSIVE groupby(_)
groupby(items) ==
    IF items = <<>> THEN <<>>
    ELSE LET k == Head(items).payload.bug.id
             stop == IF \E i \in DOMAIN items : items[i].payload.bug.id # k
                     THEN (CHOOSE i \in DOMAIN items :
                             /\ items[i].payload.bug.id # k
                             /\ \A j \in 1..(i - 1) : items[j].payload.bug.id = k)
                     ELSE Len(items) + 1
         IN  <<[k |-> k, v |-> SubSeq(items, 1, stop - 1)]>>
             \o groupby(SubSeq(items, stop, Len(items)))

\* {k: list(v) for k, v in by_bug}: a repeated key keeps its place and takes
\* the later value
RECURSIVE DictOf(_)
DictOf(pairs) ==
    IF pairs = <<>> THEN <<>>
    ELSE LET n == Len(pairs)
         IN  DictSet(DictOf(SubSeq(pairs, 1, n - 1)), pairs[n].k, pairs[n].v)

FileBackend_get_all(loc, order) ==
    DictOf(groupby([i \in DOMAIN order |-> QueueItem_load(loc.files[order[i]])]))

\* size counting the folders
FileBackend_size_mut(loc) == Cardinality(loc.folders)

FileBackend_size(loc) == Cardinality(DOMAIN loc.files)

\* --------------------------------------------------------- DeadLetterQueue
\* urlparse(dsn).scheme selects the backend
DSNs == {[scheme |-> "memory", path |-> ""], [scheme |-> "file", path |-> "/tmp/dlq"]}

\* ftp://x and a DSN without "://"
OtherDSNs == {[scheme |-> "ftp", path |-> ""], [scheme |-> "", path |-> "memory"]}

\* every scheme taken for the scheme memory
BackendOf_mut(dsn) == IF dsn.scheme = "file" THEN "file" ELSE "memory"

BackendOf(dsn) ==
    IF dsn.scheme = "memory" THEN "memory"
    ELSE IF dsn.scheme = "file" THEN "file"
    ELSE "none"

\* retrieve() sorting all items at once
retrieve_flat(all) ==
    sorted(Concat(DictValues(all)), ByEventTime(Concat(DictValues(all))))

\* retrieve() leaving each group in the backend's order
retrieve_unsorted(all) ==
    LET nonempty == SelectSeq(DictValues(all), LAMBDA v : Len(v) > 0)
    IN  Concat(sorted(nonempty, ByFirstEventTime(nonempty)))

\* retrieve() leaving the groups in the backend's order
retrieve_ungrouped(all) ==
    LET nonempty == SelectSeq(DictValues(all), LAMBDA v : Len(v) > 0)
    IN  Concat([i \in DOMAIN nonempty |-> sorted(nonempty[i], ByEventTime(nonempty[i]))])

\* retrieve() on the dict get_all returned
retrieve(all) ==
    LET vals == DictValues(all)
        nonempty == SelectSeq(vals, LAMBDA v : Len(v) > 0)
        sorted_existing ==
            [i \in DOMAIN nonempty |-> sorted(nonempty[i], ByEventTime(nonempty[i]))]
        by_oldest_bug_events == sorted(sorted_existing, ByFirstEventTime(sorted_existing))
    IN  Concat(by_oldest_bug_events)

is_blocked_mut(items) == Len(items) > 1

\* is_blocked on the list get returned
is_blocked(items) == Len(items) > 0

\* ------------------------------------------------------------------- state
VARIABLES
    backend,    \* DeadLetterQueue.backend: "memory", "file", or "none"
    now,        \* the wall clock when it was last read, in ticks of ClockStep
    existing,   \* MemoryBackend.existing
    location,   \* the directory tree at FileBackend.location
    ret,        \* the last call: its name, argument, return value, exception
    created,    \* history: the bag of items built by postpone and track_failed
    pending,    \* history: the bag of items put and not yet passed to done
    nPut,       \* history: the number of puts
    nDone,      \* history: the number of done calls passed an item still pending
    cleared,    \* history: whether clear has been called
    prev,       \* history: what the last put, done or clear found (see Snapshot)
    shadow,     \* history: the backend as the puts, dones and clears alone make
                \* it, and beside a Memory Backend the File Backend they make
    handlers,   \* the event handlers that follow the admission protocol
    sweep       \* the sweep process: where it stands and the items it holds

vars == <<backend, now, existing, location, ret, created, pending, nPut, nDone,
          cleared, prev, shadow, handlers, sweep>>

history == <<created, pending, nPut, nDone, cleared, shadow>>

\* ------------------------------------------------------- derived state
SeqToBag(s) == [x \in Range(s) |-> Count(s, x)]

\* the items get(bug_id) returns now, as a bag
StoredFor(bug_id) ==
    IF backend = "memory"
    THEN SeqToBag(DefaultGet(existing, bug_id).value)
    ELSE SetToBag({QueueItem_load(location.files[p]) : p \in FilesIn(location, bug_id)})

\* the items put for bug_id and not yet passed to done
PendingFor(bug_id) ==
    [x \in {y \in BagToSet(pending) : y.payload.bug.id = bug_id} |-> pending[x]]

\* no two items ever put for bug_id share an identifier
DistinctIdentifiers(bug_id) ==
    \A x, y \in BagToSet(created) :
        (x.payload.bug.id = bug_id /\ y.payload.bug.id = bug_id) =>
            /\ created[x] = 1
            /\ (x # y => identifier(x) # identifier(y))

\* everything the backend holds, as a bag
AllStored ==
    IF backend = "memory"
    THEN SeqToBag(Concat(DictValues(existing)))
    ELSE SetToBag({QueueItem_load(location.files[p]) : p \in DOMAIN location.files})

\* what size() returns now
CurrentSize ==
    IF backend = "memory" THEN MemoryBackend_size(existing) ELSE FileBackend_size(location)

\* the flattened results get_all() can return now, one for every order in
\* which the file system may list the tree
GetAllResults ==
    IF backend = "memory"
    THEN {Concat(DictValues(MemoryBackend_get_all(existing)))}
    ELSE {Concat(DictValues(FileBackend_get_all(location, o))) : o \in RglobOrders(location)}

\* the results get(bug_id) can return now
GetResults(bug_id) ==
    IF backend = "memory"
    THEN {MemoryBackend_get(existing, bug_id).value}
    ELSE {FileBackend_get(location, o) : o \in GlobOrders(location, bug_id)}

AllDistinctIdentifiers == \A k \in Keys : DistinctIdentifiers(k)

KeyOf(item) == item.payload.bug.id

\* the items of one key are next to each other in s
Contiguous(s) ==
    \A i, j \in DOMAIN s :
        (i < j /\ KeyOf(s[i]) = KeyOf(s[j])) => \A m \in i..j : KeyOf(s[m]) = KeyOf(s[i])

\* what a call finds: the items held, size() and the pending bag
Snapshot == [stored |-> AllStored, size |-> CurrentSize, pending |-> pending]

\* An event handler: where it stands, its event, what is_blocked told it,
\* whether it ran without yielding, whether it processed its event and
\* whether an item of the key was stored at that moment.
HandlerIds == 1..NumHandlers

Idle == [pc |-> "idle", payload |-> None, blocked |-> FALSE, atomic |-> FALSE,
         processed |-> FALSE, busy |-> FALSE]

\* the sweep before its first retrieve()
SweepIdle == [pc |-> "retrieve", items |-> <<>>]

\* prev after a call that changes nothing
NoSnapshot == [stored |-> EmptyBag, size |-> 0, pending |-> EmptyBag]

Return(op, arg, val) == [op |-> op, arg |-> arg, val |-> val, exc |-> ""]
Raise(op, arg, exc) == [op |-> op, arg |-> arg, val |-> None, exc |-> exc]

\* The puts, dones and clears applied to the shadow: to a Memory Backend
\* that is never queried, and to a File Backend.
ShadowPut(item) ==
    [existing |-> IF backend = "memory" THEN MemoryBackend_put(shadow.existing, item)
                  ELSE shadow.existing,
     location |-> FileBackend_put(shadow.location, item)]

ShadowRemove(item) ==
    [existing |-> IF backend = "memory"
                  THEN MemoryBackend_remove(shadow.existing, KeyOf(item), identifier(item))
                  ELSE shadow.existing,
     location |-> IF FileBackend_remove_raises(shadow.location, KeyOf(item), identifier(item))
                  THEN shadow.location
                  ELSE FileBackend_remove(shadow.location, KeyOf(item), identifier(item))]

ShadowClear ==
    [existing |-> IF backend = "memory" THEN MemoryBackend_clear(shadow.existing)
                  ELSE shadow.existing,
     location |-> IF shadow.location.exists THEN FileBackend_clear(shadow.location)
                  ELSE shadow.location]

\* DeadLetterQueue(dsn): MemoryBackend() or FileBackend(path) on a path that
\* does not exist yet or is an empty directory.
Init ==
    /\ \E dsn \in DSNs : backend = BackendOf(dsn)
    /\ now = 0
    /\ existing = <<>>
    /\ location = EmptyTree
    /\ ret = Return("init", None, None)
    /\ created = EmptyBag
    /\ pending = EmptyBag
    /\ nPut = 0
    /\ nDone = 0
    /\ cleared = FALSE
    /\ prev = NoSnapshot
    /\ shadow = [existing |-> existing, location |-> location]
    /\ handlers = [h \in HandlerIds |-> Idle]
    /\ sweep = SweepIdle

\* self.backend.put(item); the caller read the clock to build the item, and
\* the clock never runs backwards
PutOn(existing_, item) ==
    /\ backend = "memory" =>
        /\ existing' = MemoryBackend_put(existing_, item)
        /\ UNCHANGED location
    /\ backend = "file" =>
        /\ location' = FileBackend_put(location, item)
        /\ UNCHANGED existing
    /\ shadow' = ShadowPut(item)
    /\ created' = created (+) SetToBag({item})
    /\ pending' = pending (+) SetToBag({item})
    /\ nPut' = nPut + 1
    /\ prev' = Snapshot
    /\ UNCHANGED <<backend, nDone, cleared>>

Put(item) == PutOn(existing, item)

postpone(payload) ==
    /\ backend # "none"
    /\ nPut < MaxPuts
    /\ \E tick \in now..MaxNow :
          LET item == QueueItem(tick, payload, None)
          IN  /\ now' = tick
              /\ Put(item)
              /\ ret' = Return("postpone", item, None)

track_failed(payload, exc) ==
    /\ backend # "none"
    /\ nPut < MaxPuts
    /\ \E tick \in now..MaxNow :
          LET item == QueueItem(tick, payload, Some(from_exc(exc)))
          IN  /\ now' = tick
              /\ Put(item)
              /\ ret' = Return("track_failed", item, None)

\* one payload per key: is_blocked reads payload.bug.id only
Probes == {[bug |-> [id |-> k], event |-> [action |-> "create", time |-> None]] : k \in Keys}

IsBlocked(payload) ==
    /\ backend # "none"
    /\ backend = "memory" =>
        LET g == MemoryBackend_get(existing, payload.bug.id)
        IN  /\ existing' = g.existing
            /\ ret' = Return("is_blocked", payload, is_blocked(g.value))
    /\ backend = "file" =>
        /\ \E order \in GlobOrders(location, payload.bug.id) :
              ret' = Return("is_blocked", payload, is_blocked(FileBackend_get(location, order)))
        /\ UNCHANGED existing
    /\ prev' = NoSnapshot
    /\ UNCHANGED <<backend, now, location, history>>

Retrieve ==
    /\ backend # "none"
    /\ backend = "memory" =>
        ret' = Return("retrieve", None, retrieve(MemoryBackend_get_all(existing)))
    /\ backend = "file" =>
        \E order \in RglobOrders(location) :
            ret' = Return("retrieve", None, retrieve(FileBackend_get_all(location, order)))
    /\ prev' = NoSnapshot
    /\ UNCHANGED <<backend, now, existing, location, history, handlers, sweep>>

\* done(item) on an item some earlier postpone or track_failed built
done(item) ==
    /\ backend # "none"
    /\ BagIn(item, created)
    /\ backend = "memory" =>
        /\ existing' = MemoryBackend_remove(existing, item.payload.bug.id, identifier(item))
        /\ ret' = Return("done", item, None)
        /\ UNCHANGED location
    /\ backend = "file" =>
        /\ IF FileBackend_remove_raises(location, item.payload.bug.id, identifier(item))
           THEN /\ ret' = Raise("done", item, "FileNotFoundError")
                /\ UNCHANGED location
           ELSE /\ location' = FileBackend_remove(location, item.payload.bug.id, identifier(item))
                /\ ret' = Return("done", item, None)
        /\ UNCHANGED existing
    /\ shadow' = ShadowRemove(item)
    /\ IF CopiesIn(item, pending) > 0
       THEN /\ pending' = pending (-) SetToBag({item})
            /\ nDone' = nDone + 1
       ELSE UNCHANGED <<pending, nDone>>
    /\ prev' = Snapshot
    /\ UNCHANGED <<backend, now, created, nPut, cleared>>

Size ==
    /\ backend # "none"
    /\ ret' = Return("size", None,
                     IF backend = "memory" THEN MemoryBackend_size(existing)
                     ELSE FileBackend_size(location))
    /\ prev' = NoSnapshot
    /\ UNCHANGED <<backend, now, existing, location, history, handlers, sweep>>

\* self.backend.clear(); rmtree raises when the root is already gone
Clear ==
    /\ backend # "none"
    /\ backend = "memory" =>
        /\ existing' = MemoryBackend_clear(existing)
        /\ ret' = Return("clear", None, None)
        /\ pending' = EmptyBag
        /\ UNCHANGED location
    /\ backend = "file" =>
        /\ IF location.exists
           THEN /\ location' = FileBackend_clear(location)
                /\ ret' = Return("clear", None, None)
                /\ pending' = EmptyBag
           ELSE /\ ret' = Raise("clear", None, "FileNotFoundError")
                /\ UNCHANGED <<location, pending>>
        /\ UNCHANGED existing
    /\ shadow' = ShadowClear
    /\ cleared' = TRUE
    /\ prev' = Snapshot
    /\ UNCHANGED <<backend, now, created, nPut, nDone, handlers, sweep>>

Postpone == \E payload \in Payloads : postpone(payload) /\ UNCHANGED <<handlers, sweep>>

TrackFailed ==
    \E payload \in Payloads, exc \in Exceptions :
        track_failed(payload, exc) /\ UNCHANGED <<handlers, sweep>>

Blocked == \E payload \in Probes : IsBlocked(payload) /\ UNCHANGED <<handlers, sweep>>

Done == \E item \in BagToSet(created) : done(item) /\ UNCHANGED <<handlers, sweep>>

Next ==
    \/ Postpone
    \/ TrackFailed
    \/ Blocked
    \/ Retrieve
    \/ Done
    \/ Size

Spec == Init /\ [][Next]_vars

\* the operations that store and remove items
NextStore ==
    \/ Postpone
    \/ TrackFailed
    \/ Done

\* these operations and the backend's clear
NextClear == NextStore \/ Clear

SpecClear == Init /\ [][NextClear]_vars

\* ------------------------------------------------------------ construction
\* Before DeadLetterQueue(dsn) runs there is no instance, and the DSN's path
\* is absent, a directory without items, or a regular file.
InitConstruct ==
    /\ backend = "none"
    /\ now = 0
    /\ existing = <<>>
    /\ location \in {NoPath, EmptyTree, RegularFile}
    /\ ret = Return("boot", None, None)
    /\ created = EmptyBag
    /\ pending = EmptyBag
    /\ nPut = 0
    /\ nDone = 0
    /\ cleared = FALSE
    /\ prev = NoSnapshot
    /\ shadow = [existing |-> existing, location |-> location]
    /\ handlers = [h \in HandlerIds |-> Idle]
    /\ sweep = SweepIdle

\* FileBackend.__init__(location)
FileBackend_init_raises(loc) == loc.exists /\ ~loc.isdir

FileBackend_init(loc) == IF ~loc.exists THEN EmptyTree ELSE loc

\* DeadLetterQueue.__init__(dsn); ret.arg keeps the DSN and what was found
\* at the path, ret.val the root of the File Backend
Construct(dsn) ==
    /\ ret.op = "boot"
    /\ LET found == [dsn |-> dsn, path |-> location]
       IN  IF BackendOf(dsn) = "memory"
           THEN /\ backend' = "memory"
                /\ ret' = Return("init", found, None)
                /\ UNCHANGED location
           ELSE IF BackendOf(dsn) = "file"
           THEN IF FileBackend_init_raises(location)
                THEN /\ backend' = "none"
                     /\ ret' = Raise("init", found, "ValueError")
                     /\ UNCHANGED location
                ELSE /\ backend' = "file"
                     /\ location' = FileBackend_init(location)
                     /\ ret' = Return("init", found, Some(dsn.path))
           ELSE /\ backend' = "none"
                /\ ret' = Raise("init", found, "InvalidQueueDSNError")
                /\ UNCHANGED location
    /\ shadow' = [shadow EXCEPT !.location = location']
    /\ UNCHANGED <<now, existing, created, pending, nPut, nDone, cleared, prev,
                   handlers, sweep>>

Constructor == \E dsn \in DSNs \cup OtherDSNs : Construct(dsn)

NextConstruct == Constructor \/ NextStore

SpecConstruct == InitConstruct /\ [][NextConstruct]_vars

\* ------------------------------------------------------- event handlers
\* The admission protocol of the calling code: await is_blocked(payload);
\* if blocked, postpone(payload); otherwise process the event and, when the
\* processing raises, track_failed(payload, exc).

\* the handler awaits is_blocked and is suspended with the answer
HCheck(h) ==
    /\ handlers[h].pc = "idle"
    /\ \E payload \in Payloads :
          /\ IsBlocked(payload)
          /\ handlers' = [handlers EXCEPT ![h] =
                 [@ EXCEPT !.pc = "checked", !.payload = payload, !.blocked = ret'.val]]
    /\ UNCHANGED sweep

\* resumed with "blocked": postpone and stop
HPostpone(h) ==
    /\ handlers[h].pc = "checked"
    /\ handlers[h].blocked
    /\ postpone(handlers[h].payload)
    /\ handlers' = [handlers EXCEPT ![h].pc = "end"]
    /\ UNCHANGED sweep

\* resumed with "not blocked": process the event, which succeeds or raises
HProcess(h) ==
    /\ handlers[h].pc = "checked"
    /\ ~handlers[h].blocked
    /\ \E ok \in BOOLEAN :
          handlers' = [handlers EXCEPT ![h] =
              [@ EXCEPT !.pc = IF ok THEN "end" ELSE "failed",
                        !.processed = TRUE,
                        !.busy = StoredFor(handlers[h].payload.bug.id) # EmptyBag]]
    /\ UNCHANGED <<backend, now, existing, location, ret, history, prev, sweep>>

\* the processing raised: track_failed
HTrackFailed(h) ==
    /\ handlers[h].pc = "failed"
    /\ \E exc \in Exceptions : track_failed(handlers[h].payload, exc)
    /\ handlers' = [handlers EXCEPT ![h].pc = "end"]
    /\ UNCHANGED sweep

\* The whole protocol without a yield in between, which is how the calls
\* run as long as no queue operation really suspends.
HAtomic(h) ==
    /\ handlers[h].pc = "idle"
    /\ backend # "none"
    /\ UNCHANGED sweep
    /\ \E payload \in Payloads, ok \in BOOLEAN, exc \in Exceptions, tick \in now..MaxNow :
          LET k == payload.bug.id
              g == IF backend = "memory" THEN MemoryBackend_get(existing, k)
                   ELSE [existing |-> existing,
                         value |-> FileBackend_get(location,
                                       CHOOSE o \in GlobOrders(location, k) : TRUE)]
              blocked == is_blocked(g.value)
              item == QueueItem(tick, payload,
                                IF blocked THEN None ELSE Some(from_exc(exc)))
          IN  /\ handlers' = [handlers EXCEPT ![h] =
                     [pc |-> "end", payload |-> payload, blocked |-> blocked,
                      atomic |-> TRUE, processed |-> ~blocked,
                      busy |-> StoredFor(k) # EmptyBag]]
              /\ IF blocked \/ ~ok
                 THEN /\ nPut < MaxPuts
                      /\ now' = tick
                      /\ PutOn(g.existing, item)
                      /\ ret' = Return(IF blocked THEN "postpone" ELSE "track_failed",
                                       item, None)
                 ELSE /\ tick = now
                      /\ existing' = g.existing
                      /\ ret' = Return("is_blocked", payload, FALSE)
                      /\ prev' = NoSnapshot
                      /\ UNCHANGED <<backend, now, location, history>>

\* the sweep resolves a stored item
HSweep == \E item \in BagToSet(AllStored) : done(item) /\ UNCHANGED <<handlers, sweep>>

NextHandlers ==
    \/ \E h \in HandlerIds : HCheck(h)
    \/ \E h \in HandlerIds : HPostpone(h)
    \/ \E h \in HandlerIds : HProcess(h)
    \/ \E h \in HandlerIds : HTrackFailed(h)
    \/ \E h \in HandlerIds : HAtomic(h)
    \/ HSweep

SpecHandlers == Init /\ [][NextHandlers]_vars

\* ------------------------------------------------------------- the sweep
\* The sweep process of the calling code: items = await retrieve(), then
\* await done(item) for each item in order, and again.  Every await is a
\* suspension point, so the callers' puts and dones run in between.

\* the sweep awaits retrieve()
SweepRetrieve ==
    /\ sweep.pc = "retrieve"
    /\ backend # "none"
    /\ \E d \in (IF backend = "memory" THEN {MemoryBackend_get_all(existing)}
                 ELSE {FileBackend_get_all(location, o) : o \in RglobOrders(location)}) :
          /\ ret' = Return("retrieve", None, retrieve(d))
          /\ sweep' = [pc |-> IF retrieve(d) = <<>> THEN "retrieve" ELSE "done",
                       items |-> retrieve(d)]
    /\ prev' = NoSnapshot
    /\ UNCHANGED <<backend, now, existing, location, history, handlers>>

\* the sweep awaits done(item) for the next item of its list; an exception
\* of done ends the sweep
SweepDone ==
    /\ sweep.pc = "done"
    /\ done(Head(sweep.items))
    /\ sweep' = IF ret'.exc # "" THEN [sweep EXCEPT !.pc = "failed"]
                ELSE [pc |-> IF Tail(sweep.items) = <<>> THEN "retrieve" ELSE "done",
                      items |-> Tail(sweep.items)]
    /\ UNCHANGED handlers

SweepStep == SweepRetrieve \/ SweepDone

NextSweep ==
    \/ Postpone
    \/ TrackFailed
    \/ Done
    \/ SweepRetrieve
    \/ SweepDone

\* the scheduler resumes the sweep whenever it stays ready to run
SpecSweep == Init /\ [][NextSweep]_vars /\ WF_vars(SweepStep)

\* ------------------------------------------------------------------ C2
\* C2 as stated: with every queue operation a suspension point, in every
\* interleaving no handler processes an event while an item of its key is
\* stored (which is what two handlers of one key that were both resumed with
\* "not blocked" end up doing when the first one fails).
C2_NoProcessingWhileStored ==
    \A h \in HandlerIds : handlers[h].processed => ~handlers[h].busy

\* C2 amended: a handler processes its event only after its own is_blocked
\* call found no item stored for the key, and postpones otherwise; no item
\* of the key is stored while it processes provided it runs from is_blocked
\* to the processing without yielding to another handler.
C2_NoProcessingWhileStoredAtomic ==
    \A h \in HandlerIds :
        /\ handlers[h].processed => ~handlers[h].blocked
        /\ (handlers[h].processed /\ handlers[h].atomic) => ~handlers[h].busy
        /\ (handlers[h].pc = "end" /\ handlers[h].blocked) => ~handlers[h].processed

\* one handler ran without yielding and processed its event, the other ran
\* without yielding afterwards, found the key blocked and postponed
C2_Witness ==
    \E h1, h2 \in HandlerIds :
        /\ handlers[h1].atomic /\ handlers[h1].processed /\ handlers[h1].pc = "end"
        /\ handlers[h2].atomic /\ handlers[h2].blocked /\ handlers[h2].pc = "end"
        /\ handlers[h1].payload.bug.id = handlers[h2].payload.bug.id
        /\ BagCardinality(StoredFor(handlers[h1].payload.bug.id)) = 2

\* ------------------------------------------------------------------ C1
\* C1 as stated: after postpone, track_failed and done calls, is_blocked
\* returns true exactly when some item put for the key has not yet been
\* passed to done.
C1_BlockedIffPending ==
    ret.op = "is_blocked" =>
        (ret.val <=> PendingFor(ret.arg.bug.id) # EmptyBag)

\* C1 amended: is_blocked returns true exactly when the backend stores an
\* item for the key, and that is the case exactly when some item put for
\* the key has not yet been passed to done provided no two items put for
\* the key share an identifier.
C1_BlockedIffStored ==
    ret.op = "is_blocked" =>
        /\ ret.val <=> StoredFor(ret.arg.bug.id) # EmptyBag
        /\ DistinctIdentifiers(ret.arg.bug.id) =>
              (ret.val <=> PendingFor(ret.arg.bug.id) # EmptyBag)

\* is_blocked answers false for a key whose two items were both done, and
\* true for a key of which one of two items is left
C1_Witness ==
    /\ ret.op = "is_blocked"
    /\ DistinctIdentifiers(ret.arg.bug.id)
    /\ nDone >= 1
    /\ ret.val
    /\ BagCardinality(PendingFor(ret.arg.bug.id)) = 1
    /\ \E x \in BagToSet(created) :
          x.payload.bug.id = ret.arg.bug.id /\ ~BagIn(x, pending)

\* ------------------------------------------------------------------ C3
\* C3 as stated: retrieve() returns a permutation of the items put and not
\* yet passed to done, the items of one key next to each other.
C3_RetrievePending ==
    ret.op = "retrieve" =>
        /\ SeqToBag(ret.val) = pending
        /\ Contiguous(ret.val)

\* C3 amended: retrieve() returns a permutation of the items the backend
\* holds, the items of one key next to each other; these are the items put
\* and not yet passed to done provided no two items put for one key share
\* an identifier.
C3_RetrieveStored ==
    ret.op = "retrieve" =>
        /\ SeqToBag(ret.val) = AllStored
        /\ Contiguous(ret.val)
        /\ AllDistinctIdentifiers => SeqToBag(ret.val) = pending

\* retrieve() returned the two items left of one key after the only item of
\* another key was done
C3_Witness ==
    /\ ret.op = "retrieve"
    /\ AllDistinctIdentifiers
    /\ Len(ret.val) = 2
    /\ nDone = 1
    /\ KeyOf(ret.val[1]) = KeyOf(ret.val[2])
    /\ \E x \in BagToSet(created) : KeyOf(x) # KeyOf(ret.val[1])

\* ------------------------------------------------------------------ C4
\* C4: within one key the items of retrieve() are in ascending order of
\* event time, an absent event time counting as 0.
C4_AscendingWithinKey ==
    ret.op = "retrieve" =>
        \A i, j \in DOMAIN ret.val :
            (i < j /\ KeyOf(ret.val[i]) = KeyOf(ret.val[j])) =>
                EventTimeOrZero(ret.val[i]) <= EventTimeOrZero(ret.val[j])

\* the Memory Backend holds an item of event time 1 put before an item
\* without event time of the same key, and retrieve() returned them swapped
C4_Witness ==
    /\ ret.op = "retrieve"
    /\ backend = "memory"
    /\ Len(ret.val) >= 2
    /\ \E e \in DOMAIN existing :
          /\ Len(existing[e].v) = 2
          /\ existing[e].v[1].payload.event.time = Some(1)
          /\ existing[e].v[2].payload.event.time = None
          /\ \E i \in DOMAIN ret.val :
                /\ i < Len(ret.val)
                /\ ret.val[i] = existing[e].v[2]
                /\ ret.val[i + 1] = existing[e].v[1]

\* ------------------------------------------------------------------ C5
\* the smallest event time among the items of s with the key of s[i]
GroupMin(s, i) ==
    CHOOSE t \in {EventTimeOrZero(s[j]) : j \in {m \in DOMAIN s : KeyOf(s[m]) = KeyOf(s[i])}} :
        \A j \in DOMAIN s : KeyOf(s[j]) = KeyOf(s[i]) => t <= EventTimeOrZero(s[j])

C6_DoneIdempotent ==
    (/\ ret.op = "done"
     /\ ~BagIn(ret.arg, prev.pending)
     /\ ~BagIn(ret.arg, prev.stored))
    => /\ ret.exc = ""
       /\ AllStored = prev.stored
       /\ CurrentSize = prev.size

\* ------------------------------------------------------------------ C7
\* C7 as stated: size() equals the number of puts minus the number of done
\* calls that were passed an item still pending.
C7_SizeIsPutsMinusDones ==
    ret.op = "size" => ret.val = nPut - nDone

\* C7 amended: the same, provided no two items put for one key share an
\* identifier.
C7_SizeDistinct ==
    (ret.op = "size" /\ AllDistinctIdentifiers) => ret.val = nPut - nDone

\* size() returned 2 after three puts and one done
C7_Witness ==
    /\ ret.op = "size"
    /\ AllDistinctIdentifiers
    /\ nPut = 3
    /\ nDone = 1
    /\ ret.val = 2

\* ------------------------------------------------------------------ C8
\* the items of bag b with key k
OfKey(b, k) == [x \in {y \in BagToSet(b) : KeyOf(y) = k} |-> b[x]]

\* C8 as stated: after a put every item stored before is still returned by
\* get and get_all, together with the new item.
C8_PutKeepsAll ==
    ret.op \in {"postpone", "track_failed"} =>
        LET after == prev.stored (+) SetToBag({ret.arg})
        IN  /\ \A r \in GetAllResults : SeqToBag(r) = after
            /\ \A k \in Keys : \A r \in GetResults(k) : SeqToBag(r) = OfKey(after, k)

\* C8 amended: after a put the new item and every item stored before are
\* returned by get and get_all, except that on the File Backend a stored
\* item with the key and the identifier of the new item is replaced by it.
C8_PutKeepsOthers ==
    ret.op \in {"postpone", "track_failed"} =>
        LET replaced ==
                [x \in {y \in BagToSet(prev.stored) :
                          /\ backend = "file"
                          /\ KeyOf(y) = KeyOf(ret.arg)
                          /\ identifier(y) = identifier(ret.arg)} |-> prev.stored[x]]
            after == (prev.stored (-) replaced) (+) SetToBag({ret.arg})
        IN  /\ \A r \in GetAllResults : SeqToBag(r) = after
            /\ \A k \in Keys : \A r \in GetResults(k) : SeqToBag(r) = OfKey(after, k)

\* a third item was put for a key that held two, and all three are stored
C8_Witness ==
    /\ ret.op \in {"postpone", "track_failed"}
    /\ nPut = 3
    /\ nDone = 0
    /\ BagCardinality(StoredFor(KeyOf(ret.arg))) = 3

\* ------------------------------------------------------------------ C9
\* the items of bag b with the key and the identifier of item
Matching(b, item) ==
    [x \in {y \in BagToSet(b) :
              KeyOf(y) = KeyOf(item) /\ identifier(y) = identifier(item)} |-> b[x]]

\* C9 as stated: done(item) on a stored item removes that one item: size()
\* decreases by 1 and every other stored item stays.
C9_DoneRemovesOne ==
    (ret.op = "done" /\ BagIn(ret.arg, prev.stored)) =>
        /\ CurrentSize = prev.size - 1
        /\ AllStored = prev.stored (-) SetToBag({ret.arg})

\* C9 amended: done(item) on a stored item removes every stored item with
\* item's key and identifier, which is the single item on the File Backend
\* and whenever the stored items of the key have distinct identifiers;
\* size() decreases by their number and every other stored item stays.
C9_DoneRemovesMatching ==
    (ret.op = "done" /\ BagIn(ret.arg, prev.stored)) =>
        LET gone == Matching(prev.stored, ret.arg)
            mine == OfKey(prev.stored, KeyOf(ret.arg))
        IN  /\ ret.exc = ""
            /\ AllStored = prev.stored (-) gone
            /\ CurrentSize = prev.size - BagCardinality(gone)
            /\ (\/ backend = "file"
                \/ \A x, y \in BagToSet(mine) :
                      /\ mine[x] = 1
                      /\ x # y => identifier(x) # identifier(y))
               => /\ CurrentSize = prev.size - 1
                  /\ AllStored = prev.stored (-) SetToBag({ret.arg})

\* a done removed one of three stored items, two of them of its key
C9_Witness ==
    /\ ret.op = "done"
    /\ ret.exc = ""
    /\ nPut = 3
    /\ nDone = 1
    /\ BagIn(ret.arg, prev.stored)
    /\ BagCardinality(AllStored) = 2
    /\ BagCardinality(StoredFor(KeyOf(ret.arg))) = 1

\* ----------------------------------------------------------------- C10
\* C10: on the File Backend the item a put wrote is read back equal by
\* get(key) and by get_all(), whatever the order of the listing, and every
\* item read back is an item some put wrote under that key and identifier.
C10_RoundTrip ==
    backend = "file" =>
        /\ ret.op \in {"postpone", "track_failed"} =>
              /\ \A r \in GetResults(KeyOf(ret.arg)) : ret.arg \in Range(r)
              /\ \A r \in GetAllResults : ret.arg \in Range(r)
        /\ \A p \in DOMAIN location.files :
              LET x == QueueItem_load(location.files[p])
              IN  /\ BagIn(x, created)
                  /\ p = <<KeyOf(x), identifier(x)>>

\* a failed item with a fraction of a second in its timestamp and no event
\* time, and
\* a postponed item with an event time, are on disk
C10_Witness ==
    /\ backend = "file"
    /\ ret.op = "track_failed"
    /\ ret.arg.timestamp % MicrosPerSec # 0
    /\ ret.arg.payload.event.time = None
    /\ ret.arg.error # None
    /\ \E r \in GetAllResults : \E i \in DOMAIN r :
          r[i].error = None /\ r[i].payload.event.time # None

\* ----------------------------------------------------------------- C11
\* no instance exists and nothing was stored or changed at the path
NothingConstructed ==
    /\ backend = "none"
    /\ location = ret.arg.path
    /\ existing = <<>>
    /\ ~ENABLED Next

\* C11 as stated: the scheme alone decides: memory gives a Memory Backend,
\* file a File Backend rooted at the DSN's path, and any other scheme raises
\* the configuration error, with no instance and nothing touched.
C11_SchemeAlone ==
    ret.op = "init" =>
        /\ ret.arg.dsn.scheme = "memory" => (ret.exc = "" /\ backend = "memory")
        /\ ret.arg.dsn.scheme = "file" =>
              (ret.exc = "" /\ backend = "file" /\ ret.val = Some(ret.arg.dsn.path))
        /\ ret.arg.dsn.scheme \notin {"memory", "file"} =>
              (ret.exc = "InvalidQueueDSNError" /\ NothingConstructed)

\* C11 amended: memory gives a Memory Backend and leaves the path alone; file
\* gives a File Backend rooted at the DSN's path, created when absent,
\* provided the path is absent or a directory, and raises ValueError with no
\* instance and nothing touched when the path is a regular file; any other
\* scheme raises the configuration error with no instance and nothing touched.
C11_SchemeAndPath ==
    ret.op = "init" =>
        /\ ret.arg.dsn.scheme = "memory" =>
              (ret.exc = "" /\ backend = "memory" /\ location = ret.arg.path)
        /\ (ret.arg.dsn.scheme = "file" /\ ~FileBackend_init_raises(ret.arg.path)) =>
              /\ ret.exc = ""
              /\ backend = "file"
              /\ ret.val = Some(ret.arg.dsn.path)
              /\ location = [ret.arg.path EXCEPT !.exists = TRUE, !.isdir = TRUE]
        /\ (ret.arg.dsn.scheme = "file" /\ FileBackend_init_raises(ret.arg.path)) =>
              (ret.exc = "ValueError" /\ NothingConstructed)
        /\ ret.arg.dsn.scheme \notin {"memory", "file"} =>
              (ret.exc = "InvalidQueueDSNError" /\ NothingConstructed)

\* ftp://x was refused while the path was absent, and it still is
C11_Witness ==
    /\ ret.op = "init"
    /\ ret.arg.dsn.scheme = "ftp"
    /\ ret.exc = "InvalidQueueDSNError"
    /\ backend = "none"
    /\ location = NoPath

\* ----------------------------------------------------------------- C12
\* the elements of a set in some order
RECURSIVE SetToSeq(_)
SetToSeq(S) ==
    IF S = {} THEN <<>>
    ELSE LET x == CHOOSE y \in S : TRUE IN <<x>> \o SetToSeq(S \ {x})

\* what is_blocked answers for key k in this state; the answer is the same
\* for every order of the listing
BlockedNow(k) ==
    is_blocked(IF backend = "memory" THEN MemoryBackend_get(existing, k).value
               ELSE FileBackend_get(location, SetToSeq(FilesIn(location, k))))

\* the key of the payload or item the last call was given
RetKey == IF ret.op = "is_blocked" THEN ret.arg.bug.id ELSE KeyOf(ret.arg)

\* key k was blocked when the last postpone, track_failed, done or clear began
BlockedBefore(k) == OfKey(prev.stored, k) # EmptyBag

\* the transitions of the key state machine that do not depend on which
\* items the key holds
KeyTransitions(k) ==
    /\ BlockedNow(k) <=> StoredFor(k) # EmptyBag
    /\ ret.op \in {"postpone", "track_failed", "done", "clear"} =>
          /\ (~BlockedBefore(k) /\ BlockedNow(k)) =>
                (ret.op \in {"postpone", "track_failed"} /\ RetKey = k)
          /\ (BlockedBefore(k) /\ ~BlockedNow(k)) =>
                (ret.op = "clear" \/ (ret.op = "done" /\ RetKey = k))

\* C12 as stated: a key becomes blocked only by a postpone or track_failed
\* for it, becomes unblocked only by clear or by the done of its last item
\* put and not yet done, and stays blocked after a done that leaves it such
\* an item.
C12_NoPartialUnblock ==
    \A k \in Keys :
        /\ KeyTransitions(k)
        /\ (ret.op = "done" /\ ret.exc = "" /\ PendingFor(k) # EmptyBag) => BlockedNow(k)

\* C12 amended: a key becomes blocked only by a postpone or track_failed for
\* it, becomes unblocked only by clear or by a done for it that leaves no
\* item of it stored, and stays blocked after a done that leaves an item of
\* it stored; the stored items are the items put and not yet done provided
\* no two items put for the key share an identifier.
C12_KeyStateMachine ==
    \A k \in Keys :
        /\ KeyTransitions(k)
        /\ (ret.op = "done" /\ StoredFor(k) # EmptyBag) => BlockedNow(k)
        /\ (ret.op = "done" /\ ret.exc = "" /\ DistinctIdentifiers(k)
              /\ PendingFor(k) # EmptyBag) => BlockedNow(k)

\* a key holding two items stayed blocked through the done of one of them
\* and became unblocked by the done of the other
C12_Witness ==
    /\ ret.op = "done"
    /\ nPut = 2
    /\ nDone = 2
    /\ ~cleared
    /\ AllDistinctIdentifiers
    /\ BagCardinality(prev.stored) = 1
    /\ BlockedBefore(KeyOf(ret.arg))
    /\ ~BlockedNow(KeyOf(ret.arg))
    /\ \A x \in BagToSet(created) : KeyOf(x) = KeyOf(ret.arg)

\* ----------------------------------------------------------------- C13
\* the dicts get_all() can return now, one for every order in which the
\* file system may list the tree
GetAllDicts ==
    IF backend = "memory" THEN {MemoryBackend_get_all(existing)}
    ELSE {FileBackend_get_all(location, o) : o \in RglobOrders(location)}

\* d.get(k, [])
Group(d, k) == IF DictIndex(d, k) = 0 THEN <<>> ELSE d[DictIndex(d, k)].v

\* C13: whatever the order of the listing, the group get_all() returns under
\* a key holds exactly the items get(key) returns, every item of a group has
\* the group's key, and the group sizes add up to size().
C13_GetAllGroupsByKey ==
    \A d \in GetAllDicts :
        /\ \A k \in Keys : \A r \in GetResults(k) :
              /\ SeqToBag(Group(d, k)) = SeqToBag(r)
              /\ SeqToBag(r) = StoredFor(k)
        /\ \A i \in DOMAIN d :
              /\ d[i].k \in Keys
              /\ \A j \in DOMAIN d : d[j].k = d[i].k => j = i
              /\ \A x \in Range(d[i].v) : KeyOf(x) = d[i].k
        /\ SumLen(DictValues(d)) = CurrentSize

\* the File Backend holds two items of one key and one of another, so the
\* tree can be listed in several orders, and get_all() was called
C13_Witness ==
    /\ backend = "file"
    /\ ret.op = "retrieve"
    /\ Len(ret.val) = 3
    /\ Cardinality(location.folders) = 2
    /\ Cardinality(RglobOrders(location)) = 4
    /\ \E k \in Keys : BagCardinality(StoredFor(k)) = 2

\* ----------------------------------------------------------------- C14
\* item is as postpone builds it
AsPostponed(item) ==
    /\ item.error = None
    /\ identifier(item)[3] = "postponed"

\* item is as track_failed builds it from one of the errors
AsFailed(item) ==
    /\ \E exc \in Exceptions :
          /\ item.error # None
          /\ item.error[1].type = exc.cls
          /\ item.error[1].description = exc.msg
          /\ item.error[1].details[2] = exc.cls
    /\ identifier(item)[3] = "error"

C15_FileOverwrites ==
    backend = "file" =>
        /\ (ret.op \in {"postpone", "track_failed"}
              /\ Matching(prev.stored, ret.arg) # EmptyBag) =>
              /\ Matching(AllStored, ret.arg) = SetToBag({ret.arg})
              /\ CurrentSize = prev.size
              /\ \A r \in GetResults(KeyOf(ret.arg)) :
                    Cardinality({i \in DOMAIN r : identifier(r[i]) = identifier(ret.arg)}) = 1
        /\ \A k \in Keys : \A r \in GetResults(k) : \A i, j \in DOMAIN r :
              i # j => identifier(r[i]) # identifier(r[j])

\* a postpone in the same second replaced a stored item of another event
\* time while an item of another identifier of the key stayed
C15_Witness ==
    /\ backend = "file"
    /\ ret.op = "postpone"
    /\ nPut = 3
    /\ prev.size = 2
    /\ CurrentSize = 2
    /\ BagCardinality(StoredFor(KeyOf(ret.arg))) = 2
    /\ \E x \in BagToSet(prev.stored) :
          /\ KeyOf(x) = KeyOf(ret.arg)
          /\ identifier(x) = identifier(ret.arg)
          /\ x.payload.event.time # ret.arg.payload.event.time
          /\ ~BagIn(x, AllStored)

\* ----------------------------------------------------------------- C16
\* the lists retrieve() can return now
RetrieveResults == {retrieve(d) : d \in GetAllDicts}

\* C16: right after clear size() is 0, get_all() holds no item, retrieve()
\* is empty and is_blocked is false for every key; a put after a clear is
\* stored and blocks its key, the File Backend having made the root and the
\* key's folder again.
C16_ClearEmpties ==
    /\ ret.op = "clear" =>
          /\ CurrentSize = 0
          /\ \A r \in GetAllResults : r = <<>>
          /\ \A r \in RetrieveResults : r = <<>>
          /\ \A k \in Keys : \A r \in GetResults(k) : ~is_blocked(r)
    /\ (cleared /\ ret.op \in {"postpone", "track_failed"}) =>
          /\ CurrentSize = prev.size + 1 \/ Matching(prev.stored, ret.arg) # EmptyBag
          /\ \A r \in GetResults(KeyOf(ret.arg)) : ret.arg \in Range(r) /\ is_blocked(r)
          /\ \A r \in RetrieveResults : ret.arg \in Range(r)
          /\ backend = "file" =>
                /\ location.exists
                /\ location.isdir
                /\ KeyOf(ret.arg) \in location.folders

\* the File Backend held two items, was cleared, and the next put finds an
\* empty queue and is stored
C16_Witness ==
    /\ backend = "file"
    /\ cleared
    /\ ret.op = "track_failed"
    /\ nPut = 3
    /\ nDone = 0
    /\ prev.size = 0
    /\ CurrentSize = 1
    /\ BagIn(ret.arg, AllStored)

\* ----------------------------------------------------------------- C17
\* C17 as stated: whatever was put and done before and whatever the callers
\* do besides putting, the sweep's retrieve() and done(item) calls never
\* raise, so that the sweep goes on until the queue is empty.
C17_SweepNeverFails == sweep.pc # "failed"

\* ----------------------------------------------------------------- C18
\* C18: a postpone, track_failed or done for one key leaves the items stored
\* for every other key as they were: get and is_blocked for the other key
\* give what they gave before the call.
C18_OtherKeysUntouched ==
    ret.op \in {"postpone", "track_failed", "done"} =>
        \A k \in Keys \ {RetKey} :
            /\ StoredFor(k) = OfKey(prev.stored, k)
            /\ \A r \in GetResults(k) :
                  /\ SeqToBag(r) = OfKey(prev.stored, k)
                  /\ is_blocked(r) <=> BlockedBefore(k)

\* a done removed the item of one key while another key holds an item of
\* the same identifier, which stayed
C18_Witness ==
    /\ ret.op = "done"
    /\ ret.exc = ""
    /\ BagIn(ret.arg, prev.stored)
    /\ ~BagIn(ret.arg, AllStored)
    /\ \E x \in BagToSet(AllStored) :
          /\ KeyOf(x) # KeyOf(ret.arg)
          /\ identifier(x) = identifier(ret.arg)
          /\ BagIn(x, prev.stored)

\* ----------------------------------------------------------------- C19
\* what size(), is_blocked(k) and retrieve() would return now had none of
\* is_blocked, retrieve and size been called before
ShadowSize ==
    IF backend = "memory" THEN MemoryBackend_size(shadow.existing)
    ELSE FileBackend_size(shadow.location)

ShadowBlocked(k) ==
    IF backend = "memory" THEN is_blocked(MemoryBackend_get(shadow.existing, k).value)
    ELSE is_blocked(FileBackend_get(shadow.location, SetToSeq(FilesIn(shadow.location, k))))

ShadowRetrieve ==
    IF backend = "memory" THEN {retrieve(MemoryBackend_get_all(shadow.existing))}
    ELSE {retrieve(FileBackend_get_all(shadow.location, o)) : o \in RglobOrders(shadow.location)}

\* the items of s with key k, in the order of s
OfKeySeq(s, k) == SelectSeq(s, LAMBDA x : KeyOf(x) = k)

\* a and b hold the same items, the items of each key in the same order, and
\* the keys in the same order except for keys whose oldest items have the
\* same event time
SameUpToTies(a, b) ==
    /\ Len(a) = Len(b)
    /\ \A k \in Keys : OfKeySeq(a, k) = OfKeySeq(b, k)
    /\ \A i, j \in DOMAIN a :
          (i < j /\ GroupMin(a, i) # GroupMin(a, j)) =>
              \E m, n \in DOMAIN b : m < n /\ b[m] = a[i] /\ b[n] = a[j]

\* C19 as stated: no call of is_blocked, retrieve or size changes what a
\* later size(), is_blocked(k) or retrieve() returns.
C19_QueriesPure ==
    /\ ret.op = "size" => ret.val = ShadowSize
    /\ ret.op = "is_blocked" => ret.val = ShadowBlocked(ret.arg.bug.id)
    /\ ret.op = "retrieve" => ret.val \in ShadowRetrieve

\* C19 amended: no call of is_blocked, retrieve or size changes what a later
\* size() or is_blocked(k) returns, nor the items of a later retrieve() and
\* their order within a key and between keys whose oldest event times
\* differ; between keys whose oldest event times are equal the order follows
\* the Memory Backend's entries, and an is_blocked for a key not yet stored
\* creates the key's entry.
C19_QueriesPureUpToTies ==
    /\ ret.op = "size" => ret.val = ShadowSize
    /\ ret.op = "is_blocked" => ret.val = ShadowBlocked(ret.arg.bug.id)
    /\ ret.op = "retrieve" => \E r \in ShadowRetrieve : SameUpToTies(ret.val, r)
    /\ backend = "file" => location = shadow.location

\* is_blocked made the Memory Backend's entry of a key before another key
\* was stored, and retrieve() still returns the two keys' items in the
\* order of their event times
C19_Witness ==
    /\ backend = "memory"
    /\ ret.op = "retrieve"
    /\ Len(ret.val) = 2
    /\ Len(existing) = 2
    /\ Len(shadow.existing) = 2
    /\ existing[1].k # shadow.existing[1].k
    /\ ret.val \in ShadowRetrieve
    /\ KeyOf(ret.val[1]) # KeyOf(ret.val[2])

\* ----------------------------------------------------------------- C20
\* what a File Backend given the same puts and dones returns
TwinSize == FileBackend_size(shadow.location)

TwinBlocked(k) ==
    is_blocked(FileBackend_get(shadow.location, SetToSeq(FilesIn(shadow.location, k))))

TwinRetrieve ==
    {retrieve(FileBackend_get_all(shadow.location, o)) : o \in RglobOrders(shadow.location)}

\* x comes before y in s
Before(s, x, y) == \E i, j \in DOMAIN s : i < j /\ s[i] = x /\ s[j] = y

\* a and b hold the same items, and two items of different event time in
\* the same order
SameUpToEqualTimes(a, b) ==
    /\ SeqToBag(a) = SeqToBag(b)
    /\ \A x, y \in Range(a) :
          (EventTimeOrZero(x) # EventTimeOrZero(y) /\ Before(a, x, y)) => Before(b, x, y)

\* a and b hold the same items, each key's items next to each other and in
\* the same order unless of equal event time, and the keys in the same order
\* unless their oldest event times are equal
SameUpToGroupTies(a, b) ==
    /\ SeqToBag(a) = SeqToBag(b)
    /\ Contiguous(a)
    /\ Contiguous(b)
    /\ \A i, j \in DOMAIN a :
          (/\ i < j
           /\ \/ KeyOf(a[i]) = KeyOf(a[j]) /\ EventTimeOrZero(a[i]) # EventTimeOrZero(a[j])
              \/ KeyOf(a[i]) # KeyOf(a[j]) /\ GroupMin(a, i) # GroupMin(a, j))
          => Before(b, a[i], a[j])

\* C20 as stated: as long as the items put for each key have distinct
\* identifiers, a queue on the Memory Backend returns the is_blocked and
\* size results of a queue on the File Backend given the same calls, and a
\* retrieve() with the same items that differs at most in the order of items
\* of equal event time.
C20_BackendsEquivalent ==
    (backend = "memory" /\ AllDistinctIdentifiers) =>
        /\ ret.op = "size" => ret.val = TwinSize
        /\ ret.op = "is_blocked" => ret.val = TwinBlocked(ret.arg.bug.id)
        /\ ret.op = "retrieve" => \A r \in TwinRetrieve : SameUpToEqualTimes(ret.val, r)

\* C20 amended: under the same condition the is_blocked and size results are
\* the same, and the retrieve() sequences hold the same items, each key's
\* items together, and differ at most in the order of items of one key with
\* equal event time and in the order of keys whose oldest items have equal
\* event time.
C20_BackendsEquivalentUpToTies ==
    (backend = "memory" /\ AllDistinctIdentifiers) =>
        /\ ret.op = "size" => ret.val = TwinSize
        /\ ret.op = "is_blocked" => ret.val = TwinBlocked(ret.arg.bug.id)
        /\ ret.op = "retrieve" => \A r \in TwinRetrieve : SameUpToGroupTies(ret.val, r)

\* after a done the Memory Backend returned the two items left, of distinct
\* identifiers, in an order the File Backend can return too, and the File
\* Backend can also return them in another order
C20_Witness ==
    /\ backend = "memory"
    /\ AllDistinctIdentifiers
    /\ ret.op = "retrieve"
    /\ Len(ret.val) = 2
    /\ nDone = 1
    /\ ret.val \in TwinRetrieve
    /\ \E r \in TwinRetrieve : r # ret.val
    /\ TwinSize = 2

====
